---- MODULE Spec2Model ----
(***************************************************************************)
(* Low-thrust minimum-fuel dynamics in modified equinoctial elements:      *)
(* element conversions, switch function, thrust profile and the           *)
(* state/costate equations of motion.                                      *)
(*                                                                         *)
(* Numbers are exact rationals <<n, d>> (d > 0, lowest terms).  <<0, 0>>   *)
(* is the non-finite value (NaN / division fault): it absorbs every        *)
(* operation.  Angles are k*pi/2 + j*theta with theta = atan(4/3), whose   *)
(* sines and cosines are rational.                                         *)
(***************************************************************************)
EXTENDS Integers, Sequences, FiniteSets, TLC

---------------------------------------------------------------------------
VARIABLES
  cn,    \* const.py: physical constants
  sc,    \* spacecraft_params.py: spacecraft constants
  data,  \* the caller's input: a time history of states and costates, or elements
  rho,   \* the caller's switch smoothing parameter
  pc,    \* where the caller is
  dx,    \* what eom_mee_twobodyJ2_minfuel returned, call by call
  sf,    \* what switch_function returned
  ta,    \* what thrust_angle returned
  cv     \* what the element conversions returned

vars == <<cn, sc, data, rho, pc, dx, sf, ta, cv>>

None == [err |-> "not called"]
Raise(e) == [err |-> e]
Returned(r) == r.err = "none"

---------------------------------------------------------------------------
(* Exact arithmetic *)

AbsI(a) == IF a < 0 THEN -a ELSE a

RECURSIVE GCD(_, _)
GCD(a, b) == IF b = 0 THEN a ELSE GCD(b, a % b)

\* the non-finite value
NaN == <<0, 0>>

\* n/d in lowest terms, d # 0
Q(n, d) ==
  LET s == IF d < 0 THEN -1 ELSE 1
      g == GCD(AbsI(n), AbsI(d))
  IN  <<(s * n) \div g, (s * d) \div g>>

I(n) == <<n, 1>>

Zero == <<0, 1>>
One == <<1, 1>>
Half == <<1, 2>>

QFinite(a) == a[2] # 0

QNeg(a) == IF QFinite(a) THEN <<-a[1], a[2]>> ELSE NaN

QAdd(a, b) ==
  IF ~QFinite(a) \/ ~QFinite(b) THEN NaN
  ELSE LET g == GCD(a[2], b[2])
           bd == b[2] \div g
           ad == a[2] \div g
       IN  Q(a[1] * bd + b[1] * ad, a[2] * bd)

QMul(a, b) ==
  IF ~QFinite(a) \/ ~QFinite(b) THEN NaN
  ELSE IF a[1] = 0 \/ b[1] = 0 THEN Zero
  ELSE LET g1 == GCD(AbsI(a[1]), b[2])
           g2 == GCD(AbsI(b[1]), a[2])
       IN  <<(a[1] \div g1) * (b[1] \div g2), (a[2] \div g2) * (b[2] \div g1)>>

\* 1.0/a : a zero denominator gives the non-finite value
QInv(a) ==
  IF ~QFinite(a) \/ a[1] = 0 THEN NaN
  ELSE IF a[1] < 0 THEN <<-a[2], -a[1]>> ELSE <<a[2], a[1]>>

QAbs(a) == IF QFinite(a) THEN <<AbsI(a[1]), a[2]>> ELSE NaN

\* the largest r in lo..hi with r*r <= n, by bisection
RECURSIVE Bisect(_, _, _)
Bisect(n, lo, hi) ==
  IF lo >= hi THEN lo
  ELSE LET mid == (lo + hi + 1) \div 2
       IN  IF mid * mid <= n THEN Bisect(n, mid, hi) ELSE Bisect(n, lo, mid - 1)

ISqrt(n) == Bisect(n, 0, IF n < 46340 THEN n ELSE 46340)

IsSquareI(n) == n >= 0 /\ ISqrt(n) * ISqrt(n) = n

\* the rationals whose square root is rational
IsSquare(a) == QFinite(a) /\ IsSquareI(a[1]) /\ IsSquareI(a[2])

\* sqrt, exact on the rationals with a rational root (the inputs are drawn so
\* that every root taken is one); non-finite on a negative or non-finite argument
QSqrt(a) == IF IsSquare(a) THEN <<ISqrt(a[1]), ISqrt(a[2])>> ELSE NaN

\* tanh in fixed point: the argument to the nearest quarter, the value to
\* the nearest sixteenth: 16*tanh(i/4) for i = 1..9; it is 1 from |x| >= 2.25
TanhTab == <<4, 7, 10, 12, 14, 14, 15, 15, 16>>

QTanh(a) ==
  IF ~QFinite(a) THEN NaN
  ELSE LET n == AbsI(a[1])
           i == (8 * n + a[2]) \div (2 * a[2])
           v == IF i = 0 THEN 0 ELSE IF i >= 9 THEN 16 ELSE TanhTab[i]
       IN  Q(IF a[1] < 0 THEN -v ELSE v, 16)

Lt(a, b) == a[1] * b[2] < b[1] * a[2]
Le(a, b) == a[1] * b[2] <= b[1] * a[2]

---------------------------------------------------------------------------
(* Numbers with a derivative: <<value, derivative, 0>> is a value together   *)
(* with its partial derivative with respect to one chosen state.  The      *)
(* arithmetic below works on plain rationals and on these alike.           *)

IsDual(a) == Len(a) = 3
Val(a) == IF IsDual(a) THEN a[1] ELSE a
Der(a) == IF IsDual(a) THEN a[2] ELSE Zero
Dual(v, d) == <<v, d, 0>>

IsFinite(a) == QFinite(Val(a)) /\ QFinite(Der(a))

\* Every call of the program and of its arithmetic goes through call(a), defined
\* once the functions are: a[1] is the name called, the rest its arguments.
RECURSIVE call(_)

Neg(a) == call(<<"Neg", a>>)
Add(a, b) == call(<<"Add", a, b>>)
Mul(a, b) == call(<<"Mul", a, b>>)
Inv(a) == call(<<"Inv", a>>)
AbsQ(a) == call(<<"AbsQ", a>>)
Sqrt(a) == call(<<"Sqrt", a>>)
Tanh(a) == call(<<"Tanh", a>>)
Cos(a) == call(<<"Cos", a>>)
Sin(a) == call(<<"Sin", a>>)

dNeg(a) == IF IsDual(a) THEN Dual(QNeg(a[1]), QNeg(a[2])) ELSE QNeg(a)

dAdd(a, b) ==
  IF IsDual(a) \/ IsDual(b)
  THEN Dual(QAdd(Val(a), Val(b)), QAdd(Der(a), Der(b)))
  ELSE QAdd(a, b)

Sub(a, b) == Add(a, Neg(b))

dMul(a, b) ==
  IF IsDual(a) \/ IsDual(b)
  THEN Dual(QMul(Val(a), Val(b)), QAdd(QMul(Val(a), Der(b)), QMul(Der(a), Val(b))))
  ELSE QMul(a, b)

dInv(a) ==
  IF IsDual(a)
  THEN Dual(QInv(a[1]), QNeg(QMul(a[2], QInv(QMul(a[1], a[1])))))
  ELSE QInv(a)

Div(a, b) == Mul(a, Inv(b))

dAbsQ(a) ==
  IF IsDual(a)
  THEN Dual(QAbs(a[1]), IF a[1][1] < 0 THEN QNeg(a[2]) ELSE a[2])
  ELSE QAbs(a)

dSqrt(a) ==
  IF IsDual(a)
  THEN Dual(QSqrt(a[1]),
            IF a[2] = Zero THEN Zero ELSE QMul(a[2], QInv(QMul(I(2), QSqrt(a[1])))))
  ELSE QSqrt(a)

\* the throttle is held fixed when a derivative is taken
dTanh(a) == IF IsDual(a) THEN Dual(QTanh(a[1]), Zero) ELSE QTanh(a)

RECURSIVE Pow(_, _)
Pow(a, n) == IF n = 0 THEN One ELSE Mul(a, Pow(a, n - 1))

\* a ** (n/2)
PowHalf(a, n) == Pow(Sqrt(a), n)

\* the sum and the product of s[lo..hi], left to right
RECURSIVE dSum(_, _, _)
dSum(s, lo, hi) ==
  IF lo > hi THEN Zero
  ELSE IF lo = hi THEN s[lo]
  ELSE dAdd(dSum(s, lo, (lo + hi) \div 2), dSum(s, (lo + hi) \div 2 + 1, hi))

RECURSIVE dProd(_, _, _)
dProd(s, lo, hi) ==
  IF lo > hi THEN One
  ELSE IF lo = hi THEN s[lo]
  ELSE dMul(dProd(s, lo, (lo + hi) \div 2), dProd(s, (lo + hi) \div 2 + 1, hi))

Sum(s) == call(<<"Sum", s>>)
Prod(s) == call(<<"Prod", s>>)

---------------------------------------------------------------------------
(* Angles k*pi/2 + j*atan(4/3), as <<k, j>>; <<k, j, d>> with derivative d *)

RECURSIVE Rot(_)
Rot(j) ==
  IF j = 0 THEN <<One, Zero>>
  ELSE LET r == Rot(j - 1)
       IN  <<QAdd(QMul(r[1], Q(3, 5)), QNeg(QMul(r[2], Q(4, 5)))),
             QAdd(QMul(r[2], Q(3, 5)), QMul(r[1], Q(4, 5)))>>

CosSin(a) ==
  LET r == Rot(a[2])
      k == a[1] % 4
  IN  CASE k = 0 -> r
        [] k = 1 -> <<QNeg(r[2]), r[1]>>
        [] k = 2 -> <<QNeg(r[1]), QNeg(r[2])>>
        [] k = 3 -> <<r[2], QNeg(r[1])>>

dCos(a) ==
  IF Len(a) = 3 THEN Dual(CosSin(a)[1], QNeg(QMul(CosSin(a)[2], a[3]))) ELSE CosSin(a)[1]

dSin(a) ==
  IF Len(a) = 3 THEN Dual(CosSin(a)[2], QMul(CosSin(a)[1], a[3])) ELSE CosSin(a)[2]

\* tan(a/2) = sin a / (1 + cos a)
TanHalf(a) == Div(Sin(a), Add(One, Cos(a)))

AngleAdd(a, b) == <<a[1] + b[1], a[2] + b[2]>>

---------------------------------------------------------------------------
(* numpy arrays: a vector is a sequence of numbers, a matrix a sequence of rows *)

Dot(a, b) == Sum([j \in 1..Len(a) |-> Mul(a[j], b[j])])

\* numpy.cross for 3-vectors
cross(a, b) ==
  <<Sub(Mul(a[2], b[3]), Mul(a[3], b[2])),
    Sub(Mul(a[3], b[1]), Mul(a[1], b[3])),
    Sub(Mul(a[1], b[2]), Mul(a[2], b[1]))>>

\* numpy.linalg.norm of a vector
norm(a) == Sqrt(Dot(a, a))

\* numpy.linalg.norm of a 2-D array (Frobenius)
normRows(rows) == Sqrt(Sum([i \in 1..Len(rows) |-> Dot(rows[i], rows[i])]))

Scale(a, c) == [j \in 1..Len(a) |-> Mul(a[j], c)]
Over(a, c) == [j \in 1..Len(a) |-> Div(a[j], c)]
NegV(a) == [j \in 1..Len(a) |-> Neg(a[j])]

\* numpy.matmul of a matrix and a vector
matmul(M, u) == [i \in 1..Len(M) |-> Dot(M[i], u)]

\* B.T for a matrix given by rows
Transpose(B) == [j \in 1..Len(B[1]) |-> [i \in 1..Len(B) |-> B[i][j]]]

\* data[:, j] (j counted from 0 as in the source)
Col(dta, j) == [i \in 1..Len(dta) |-> dta[i][j + 1]]

AllFinite(a) == \A j \in 1..Len(a) : IsFinite(a[j])

---------------------------------------------------------------------------
(* functions.py *)

\* mee2rv over arrays p, f, g, h, k, L of one length
mee2rv(p, f, g, h, k, L) ==
  LET n == Len(p)
      alpha2(i) == Sub(Pow(h[i], 2), Pow(k[i], 2))
      tani2s(i) == Add(Pow(h[i], 2), Pow(k[i], 2))
      s2(i) == Add(I(1), tani2s(i))
      cosL(i) == Cos(L[i])
      sinL(i) == Sin(L[i])
      hk2(i) == Mul(Mul(I(2), h[i]), k[i])
      sq(i) == Sqrt(Div(cn.mu, p[i]))
      radius(i) == Div(p[i], Add(Add(I(1), Mul(f[i], cosL(i))), Mul(g[i], sinL(i))))
      r0(i) == Div(Mul(radius(i), Add(Add(cosL(i), Mul(alpha2(i), cosL(i))), Mul(hk2(i), sinL(i)))),
                   s2(i))
      r1(i) == Div(Mul(radius(i), Add(Sub(sinL(i), Mul(alpha2(i), sinL(i))), Mul(hk2(i), cosL(i)))),
                   s2(i))
      r2(i) == Div(Mul(Mul(I(2), radius(i)), Sub(Mul(h[i], sinL(i)), Mul(k[i], cosL(i)))), s2(i))
      v0(i) == Div(Mul(Neg(sq(i)),
                       Add(Sub(Add(Sub(Add(sinL(i), Mul(alpha2(i), sinL(i))), Mul(hk2(i), cosL(i))),
                                   g[i]),
                               Mul(f[i], hk2(i))),
                           Mul(alpha2(i), g[i]))),
                   s2(i))
      v1(i) == Div(Mul(Neg(sq(i)),
                       Add(Add(Sub(Add(Add(Neg(cosL(i)), Mul(alpha2(i), cosL(i))),
                                       Mul(hk2(i), sinL(i))),
                                   f[i]),
                               Mul(g[i], hk2(i))),
                           Mul(alpha2(i), f[i]))),
                   s2(i))
      v2(i) == Div(Mul(Mul(I(2), sq(i)),
                       Add(Add(Add(Mul(h[i], cosL(i)), Mul(k[i], sinL(i))), Mul(f[i], h[i])),
                           Mul(g[i], k[i]))),
                   s2(i))
  IN  [r |-> [i \in 1..n |-> <<r0(i), r1(i), r2(i)>>],
       v |-> [i \in 1..n |-> <<v0(i), v1(i), v2(i)>>]]

\* the conversion with the argument of perigee left out of L
classical2mee_nu(a, e, inc, Om, w, nu) ==
  LET p == Mul(a, Sub(I(1), Pow(e, 2)))
      f == Mul(e, Cos(AngleAdd(w, Om)))
      g == Mul(e, Sin(AngleAdd(w, Om)))
      h == Mul(TanHalf(inc), Cos(Om))
      k == Mul(TanHalf(inc), Sin(Om))
      L == AngleAdd(Om, nu)
  IN  <<p, f, g, h, k, L>>

classical2mee(a, e, inc, Om, w, nu) ==
  LET p == Mul(a, Sub(I(1), Pow(e, 2)))
      f == Mul(e, Cos(AngleAdd(w, Om)))
      g == Mul(e, Sin(AngleAdd(w, Om)))
      h == Mul(TanHalf(inc), Cos(Om))
      k == Mul(TanHalf(inc), Sin(Om))
      L == AngleAdd(AngleAdd(Om, w), nu)
  IN  <<p, f, g, h, k, L>>

\* the frame with the y axis taken as x cross z
inertial2radial_left(r, v) ==
  LET hvec == cross(r, v)
      h == norm(hvec)
      xrdl == Over(r, norm(r))
      zrdl == Over(hvec, h)
      yrdl == cross(xrdl, zrdl)
  IN  <<xrdl, yrdl, zrdl>>

inertial2radial(r, v) ==
  LET hvec == cross(r, v)
      h == norm(hvec)
      xrdl == Over(r, norm(r))
      zrdl == Over(hvec, h)
      yrdl == cross(zrdl, xrdl)
  IN  <<xrdl, yrdl, zrdl>>

\* B.T * lam of one sample (the loop body of switch_function up to BTL.append)
BTLof(x) ==
  LET p == x[1]
      f == x[2]
      g == x[3]
      h == x[4]
      k == x[5]
      SinL == Sin(x[6])
      CosL == Cos(x[6])
      q == Add(Add(I(1), Mul(f, CosL)), Mul(g, SinL))
      s == Add(Add(I(1), Pow(h, 2)), Pow(k, 2))
      C1 == Sqrt(p)
      C2 == Div(I(1), q)
      C3 == Sub(Mul(h, SinL), Mul(k, CosL))
      B == << <<Zero, Mul(Mul(Mul(I(2), p), C2), C1), Zero>>,
              <<Mul(C1, SinL), Mul(Mul(C1, C2), Add(Mul(Add(q, I(1)), CosL), f)),
                Mul(Mul(Neg(C1), Div(g, q)), C3)>>,
              <<Mul(Neg(C1), CosL), Mul(Mul(C1, C2), Add(Mul(Add(q, I(1)), SinL), g)),
                Mul(Mul(C1, Div(f, q)), C3)>>,
              <<Zero, Zero, Div(Mul(Mul(Mul(C1, s), CosL), C2), I(2))>>,
              <<Zero, Zero, Div(Mul(Mul(Mul(C1, s), SinL), C2), I(2))>>,
              <<Zero, Zero, Mul(Mul(C1, C2), C3)>>,
              <<Zero, Zero, Zero>> >>
      lam == <<x[8], x[9], x[10], x[11], x[12], x[13], x[14]>>
  IN  matmul(Transpose(B), lam)

\* S[i] without the division by the mass
Sof_massless(x) ==
  Sub(Add(Mul(Mul(sc.c, sc.si2can), norm(BTLof(x))), x[14]), I(1))

\* S[i] of one sample
Sof(x) ==
  Sub(Add(Div(Mul(Mul(sc.c, sc.si2can), norm(BTLof(x))), x[7]), x[14]), I(1))

\* the throttle without its factor 0.5
deltaOf_unscaled(S, rh) == Add(I(1), Tanh(Div(S, rh)))

\* delta[i] from S[i]
deltaOf(S, rh) == Mul(Half, Add(I(1), Tanh(Div(S, rh))))

switch_function(dta, rh) ==
  LET ind == Len(dta)
  IN  [err |-> "none",
       S |-> [i \in 1..ind |-> Sof(dta[i])],
       delta |-> [i \in 1..ind |-> deltaOf(Sof(dta[i]), rh)],
       BTL |-> [i \in 1..ind |-> BTLof(dta[i])]]

\* line 205 is the expression statement
\*   r, v, u_inert, u_lvlh, S, F, Pa, delta, zeta
\* which reads these local names
ReadAt205 == {"r", "v", "u_inert", "u_lvlh", "S", "F", "Pa", "delta", "zeta"}

\* the local names bound when line 205 runs: the parameters
BoundAt205 == {"data", "rho", "eclipse"}

\* line 234, if (r[0] < 0): r is the N x 3 array of mee2rv, r[0] its first row;
\* an array of more than one truth value has no truth value
eclipseTest(r) ==
  LET cmp == [j \in 1..Len(r[1]) |-> Lt(r[1][j], Zero)]
  IN  IF Len(cmp) # 1 THEN "ValueError" ELSE IF cmp[1] THEN "true" ELSE "false"

\* line 235, gamma = norm(r[1:2]) - cn.Req/cn.DU: r[1:2] is the rows 1..1 of r
gammaOf(r) ==
  Sub(normRows(SubSeq(r, 2, IF Len(r) < 2 THEN Len(r) ELSE 2)), Div(cn.Req, cn.DU))

\* lines 206-254
thrust_angle_body(dta, rh, eclipse) ==
  LET ind == Len(dta)
      swf == switch_function(dta, rh)
      S == swf.S
      delta == swf.delta
      BTL == swf.BTL
      rv == mee2rv(Col(dta, 0), Col(dta, 1), Col(dta, 2), Col(dta, 3), Col(dta, 4), Col(dta, 5))
      r == rv.r
      v == rv.v
      test == eclipseTest(r)
      shadow == eclipse /\ test = "true"
      gamma == gammaOf(r)
      zeta == [i \in 1..ind |->
                 IF shadow THEN Mul(Half, Add(I(1), Tanh(Div(gamma, rh)))) ELSE Zero]
      Pa == [i \in 1..ind |-> IF shadow THEN Mul(zeta[i], cn.Power) ELSE cn.Power]
      Thr(i) == IF eclipse
                THEN Div(Div(Mul(Mul(Pa[i], sc.A), sc.eta), sc.Isp), cn.g0)
                ELSE Div(Div(Mul(Mul(cn.P, sc.A), sc.eta), sc.Isp), cn.g0)
      F == [i \in 1..ind |-> Mul(Thr(i), delta[i])]
      u_inert == [i \in 1..ind |->
                    LET u == Scale(Over(NegV(BTL[i]), norm(BTL[i])), delta[i])
                    IN  IF shadow THEN Scale(u, zeta[i]) ELSE u]
      u_lvlh == [i \in 1..ind |-> matmul(inertial2radial(r[i], v[i]), u_inert[i])]
  IN  IF eclipse /\ test = "ValueError" THEN Raise("ValueError")
      ELSE IF ~eclipse /\ ~cn.hasP THEN Raise("AttributeError")
      ELSE [err |-> "none", r |-> r, v |-> v, u_inert |-> u_inert, u_lvlh |-> u_lvlh,
            S |-> S, F |-> F, Pa |-> Pa, delta |-> delta, zeta |-> zeta]

thrust_angle(dta, rh, eclipse) ==
  IF ReadAt205 \subseteq BoundAt205
  THEN thrust_angle_body(dta, rh, eclipse)
  ELSE Raise("UnboundLocalError")

---------------------------------------------------------------------------
(* eom.py *)

\* the statement of eom_mee_twobodyJ2_minfuel at a source line, run with the
\* local variables e: <<name assigned, value>>
eom_stmt(line, e) ==
  CASE line = 94 -> <<"t2", Cos(e.L)>>
    [] line = 95 -> <<"t3", Sin(e.L)>>
    [] line = 96 -> <<"t8", Mul(e.f, e.t2)>>
    [] line = 97 -> <<"t9", Mul(e.g, e.t3)>>
    [] line = 98 -> <<"t4", Sum(<<e.t8, e.t9, I(1)>>)>>
    [] line = 99 -> <<"t5", Pow(e.t4, 2)>>
    [] line = 100 -> <<"t6", Div(I(1), e.m)>>
    [] line = 101 -> <<"t7", Mul(e.h, e.t3)>>
    [] line = 102 -> <<"t10", Sqrt(e.p)>>
    [] line = 103 -> <<"t11", Div(I(1), e.t4)>>
    [] line = 104 -> <<"t12", Pow(e.h, 2)>>
    [] line = 105 -> <<"t13", Pow(e.k, 2)>>
    [] line = 106 -> <<"t14", Sum(<<e.t12, e.t13, I(1)>>)>>
    [] line = 107 -> <<"t29", Mul(e.k, e.t2)>>
    [] line = 108 -> <<"t15", Sub(e.t7, e.t29)>>
    [] line = 109 -> <<"t30", Prod(<<e.pco5, e.t3, e.t10, e.t11, e.t14, Div(I(1), I(2))>>)>>
    [] line = 110 -> <<"t31", Prod(<<e.g, e.pco2, e.t10, e.t11, e.t15>>)>>
    [] line = 111 -> <<"t32", Prod(<<e.pco4, e.t2, e.t10, e.t11, e.t14, Div(I(1), I(2))>>)>>
    [] line = 112 -> <<"t16", AbsQ(Sum(<<e.t30, Neg(e.t31), e.t32, Prod(<<e.pco6, e.t10, e.t11,
            e.t15>>), Prod(<<e.f, e.pco3, e.t10, e.t11, e.t15>>)>>))>>
    [] line = 113 -> <<"t17", PowHalf(e.p, 3)>>
    [] line = 114 -> <<"t18", Sum(<<e.t8, e.t9, I(2)>>)>>
    [] line = 115 -> <<"t21", Prod(<<e.pco1, e.t11, e.t17, I(2)>>)>>
    [] line = 116 -> <<"t22", Mul(e.t2, e.t18)>>
    [] line = 117 -> <<"t23", Add(e.f, e.t22)>>
    [] line = 118 -> <<"t24", Prod(<<e.pco2, e.t10, e.t11, e.t23>>)>>
    [] line = 119 -> <<"t25", Mul(e.t3, e.t18)>>
    [] line = 120 -> <<"t26", Add(e.g, e.t25)>>
    [] line = 121 -> <<"t27", Prod(<<e.pco3, e.t10, e.t11, e.t26>>)>>
    [] line = 122 -> <<"t28", Sum(<<e.t21, e.t24, e.t27>>)>>
    [] line = 123 -> <<"t19", AbsQ(e.t28)>>
    [] line = 124 -> <<"t35", Prod(<<e.pco3, e.t2, e.t10>>)>>
    [] line = 125 -> <<"t36", Prod(<<e.pco2, e.t3, e.t10>>)>>
    [] line = 126 -> <<"t37", Sub(e.t35, e.t36)>>
    [] line = 127 -> <<"t20", AbsQ(e.t37)>>
    [] line = 128 -> <<"t44", Prod(<<e.pco6, e.t10, e.t11, Sub(e.t7, e.t29)>>)>>
    [] line = 129 -> <<"t45", Prod(<<e.f, e.pco3, e.t10, e.t11, Sub(e.t7, e.t29)>>)>>
    [] line = 130 -> <<"t46", Sum(<<e.t30, Neg(e.t31), e.t32, e.t44, e.t45>>)>>
    [] line = 131 -> <<"t33", AbsQ(e.t46)>>
    [] line = 132 -> <<"t34", Pow(e.t19, 2)>>
    [] line = 133 -> <<"t38", Pow(e.t20, 2)>>
    [] line = 134 -> <<"t39", Div(I(1), Pow(e.p, 4))>>
    [] line = 135 -> <<"t40", Sub(e.t7, e.t29)>>
    [] line = 136 -> <<"t41", Div(I(1), Pow(e.t14, 2))>>
    [] line = 137 -> <<"t42", Pow(e.t5, 2)>>
    [] line = 138 -> <<"t43", Div(I(1), e.rho)>>
    [] line = 139 -> <<"t47", Pow(e.t33, 2)>>
    [] line = 140 -> <<"t48", Sum(<<e.t34, e.t38, e.t47>>)>>
    [] line = 141 -> <<"t49", Div(I(1), Sqrt(e.t48))>>
    [] line = 142 -> <<"t50", Mul(e.h, e.t2)>>
    [] line = 143 -> <<"t51", Mul(e.k, e.t3)>>
    [] line = 144 -> <<"t52", Add(e.t50, e.t51)>>
    [] line = 145 -> <<"t53", Prod(<<e.J2, e.t15, e.t39, e.t41, e.t42, e.t52, I(12)>>)>>
    [] line = 146 -> <<"t54", Sqrt(e.t48)>>
    [] line = 147 -> <<"t55", Prod(<<e.c, e.si2can, e.t6, e.t54>>)>>
    [] line = 148 -> <<"t56", Sum(<<e.pco7, e.t55, Neg(I(1))>>)>>
    [] line = 149 -> <<"t57", Mul(e.t43, e.t56)>>
    [] line = 150 -> <<"t58", Tanh(e.t57)>>
    [] line = 151 -> <<"t59", Mul(e.t58, Div(I(1), I(2)))>>
    [] line = 152 -> <<"t60", Add(e.t59, Div(I(1), I(2)))>>
    [] line = 153 -> <<"t61", Sub(e.t7, e.t29)>>
    [] line = 154 -> <<"t62", Prod(<<e.Thr, e.si2can, e.t6, e.t37, e.t49, e.t60>>)>>
    [] line = 155 -> <<"t63", Prod(<<e.Thr, e.si2can, e.t6, e.t28, e.t49, e.t60>>)>>
    [] line = 156 -> <<"t64", Add(e.t53, e.t63)>>
    [] line = 157 -> <<"t65", Sum(<<e.t12, e.t13, Neg(I(1))>>)>>
    [] line = 158 -> <<"t66", Prod(<<e.Thr, e.si2can, e.t6, e.t46, e.t49, e.t60>>)>>
    [] line = 159 -> <<"t68", Prod(<<e.J2, e.t15, e.t39, e.t41, e.t42, e.t65, I(6)>>)>>
    [] line = 160 -> <<"t67", Sub(e.t66, e.t68)>>
    [] line = 161 -> <<"t69", Sub(e.t7, e.t29)>>
    [] line = 162 -> <<"t70", Div(I(1), Sqrt(e.p))>>
    [] line = 163 -> <<"t71", Sub(e.t7, e.t29)>>
    [] line = 164 -> <<"t72", Div(I(1), PowHalf(e.p, 9))>>
    [] line = 165 -> <<"t73", Sub(e.t7, e.t29)>>
    [] line = 166 -> <<"t74", Sub(e.t7, e.t29)>>
    [] line = 167 -> <<"t75", Sub(e.t7, e.t29)>>
    [] line = 168 -> <<"t76", Sub(e.t7, e.t29)>>
    [] line = 169 -> <<"t77", Sub(e.t7, e.t29)>>
    [] line = 170 -> <<"t78", Div(I(1), e.t14)>>
    [] line = 171 -> <<"t79", Div(I(1), PowHalf(e.p, 3))>>
    [] line = 172 -> <<"t80", Div(I(1), PowHalf(e.p, 7))>>
    [] line = 173 -> <<"t81", Sub(e.t7, e.t29)>>
    [] line = 174 -> <<"t82", Div(I(1), Pow(e.t4, 2))>>
    [] line = 175 -> <<"t83", Sub(e.t7, e.t29)>>
    [] line = 176 -> <<"t84", Sub(e.t7, e.t29)>>
    [] line = 177 -> <<"t85", Pow(e.t2, 2)>>
    [] line = 178 -> <<"t86", Sub(e.t7, e.t29)>>
    [] line = 179 -> <<"t87", Sub(e.t7, e.t29)>>
    [] line = 180 -> <<"t88", Div(I(1), PowHalf(e.p, 5))>>
    [] line = 181 -> <<"t89", Sub(e.t7, e.t29)>>
    [] line = 182 -> <<"t90", Prod(<<e.t2, e.t3, e.t10, e.t11, e.t64>>)>>
    [] line = 183 -> <<"t91", Sub(e.t7, e.t29)>>
    [] line = 184 -> <<"t92", Pow(e.t3, 2)>>
    [] line = 185 -> <<"t93", Sub(e.t7, e.t29)>>
    [] line = 186 -> <<"t94", Sub(e.t7, e.t29)>>
    [] line = 187 -> <<"t95", Sub(e.t7, e.t29)>>
    [] line = 188 -> <<"t96", Add(Neg(e.t7), e.t29)>>
    [] line = 189 -> <<"t98", Prod(<<e.pco6, e.t10, e.t11, e.t96>>)>>
    [] line = 190 -> <<"t99", Prod(<<e.f, e.pco3, e.t10, e.t11, e.t96>>)>>
    [] line = 191 -> <<"t100", Prod(<<e.g, e.pco2, e.t10, e.t11, e.t96>>)>>
    [] line = 192 -> <<"t101", Sum(<<e.t30, e.t32, Neg(e.t98), Neg(e.t99), e.t100>>)>>
    [] line = 193 -> <<"t97", AbsQ(e.t101)>>
    [] line = 194 -> <<"t102", Pow(e.t97, 2)>>
    [] line = 195 -> <<"t103", Sum(<<e.t34, e.t38, e.t102>>)>>
    [] line = 196 -> <<"t104", Div(I(1), Pow(e.t14, 3))>>
    [] line = 197 -> <<"t105", Prod(<<e.J2, e.t39, e.t41, e.t42, e.t65, e.t96, I(6)>>)>>
    [] line = 198 -> <<"t106", Sqrt(e.t103)>>
    [] line = 199 -> <<"t107", Prod(<<e.c, e.si2can, e.t6, e.t106>>)>>
    [] line = 200 -> <<"t108", Sum(<<e.pco7, e.t107, Neg(I(1))>>)>>
    [] line = 201 -> <<"t109", Mul(e.t43, e.t108)>>
    [] line = 202 -> <<"t110", Tanh(e.t109)>>
    [] line = 203 -> <<"t111", Mul(e.t110, Div(I(1), I(2)))>>
    [] line = 204 -> <<"t112", Add(e.t111, Div(I(1), I(2)))>>
    [] line = 205 -> <<"t113", Div(I(1), Sqrt(e.t103))>>
    [] line = 206 -> <<"t114", Prod(<<e.Thr, e.si2can, e.t6, e.t101, e.t112, e.t113>>)>>
    [] line = 207 -> <<"t115", Add(e.t105, e.t114)>>
    [] line = 208 -> <<"t116", Prod(<<e.J2, e.t3, e.t39, e.t41, e.t42, e.t65, I(6)>>)>>
    [] line = 209 -> <<"t117", Prod(<<e.J2, e.h, e.t39, e.t42, e.t65, e.t96, e.t104, I(24)>>)>>
    [] line = 210 -> <<"t122", Prod(<<e.J2, e.h, e.t39, e.t41, e.t42, e.t96, I(12)>>)>>
    [] line = 211 -> <<"t118", Sum(<<e.t116, e.t117, Neg(e.t122)>>)>>
    [] line = 212 -> <<"t119", Prod(<<e.J2, e.t3, e.t39, e.t41, e.t42, e.t52, I(12)>>)>>
    [] line = 213 -> <<"t120", Prod(<<e.J2, e.h, e.t39, e.t42, e.t52, e.t96, e.t104, I(48)>>)>>
    [] line = 214 -> <<"t127", Prod(<<e.J2, e.t2, e.t39, e.t41, e.t42, e.t96, I(12)>>)>>
    [] line = 215 -> <<"t121", Sum(<<e.t119, e.t120, Neg(e.t127)>>)>>
    [] line = 216 -> <<"t123", Prod(<<e.t3, e.t41, e.t96, I(24)>>)>>
    [] line = 217 -> <<"t124", Pow(e.t9, 2)>>
    [] line = 218 -> <<"t125", Prod(<<e.h, e.t104, e.t124, I(48)>>)>>
    [] line = 219 -> <<"t126", Add(e.t123, e.t125)>>
    [] line = 220 -> <<"t128", Prod(<<e.J2, e.t2, e.t39, e.t41, e.t42, e.t65, I(6)>>)>>
    [] line = 221 -> <<"t129", Prod(<<e.J2, e.k, e.t39, e.t41, e.t42, e.t96, I(12)>>)>>
    [] line = 222 -> <<"t134", Prod(<<e.J2, e.k, e.t39, e.t42, e.t65, e.t96, e.t104, I(24)>>)>>
    [] line = 223 -> <<"t130", Sum(<<e.t128, e.t129, Neg(e.t134)>>)>>
    [] line = 224 -> <<"t131", Prod(<<e.J2, e.t2, e.t39, e.t41, e.t42, e.t52, I(12)>>)>>
    [] line = 225 -> <<"t132", Prod(<<e.J2, e.t3, e.t39, e.t41, e.t42, e.t96, I(12)>>)>>
    [] line = 226 -> <<"t137", Prod(<<e.J2, e.k, e.t39, e.t42, e.t52, e.t96, e.t104, I(48)>>)>>
    [] line = 227 -> <<"t133", Sum(<<e.t131, e.t132, Neg(e.t137)>>)>>
    [] line = 228 -> <<"t135", Prod(<<e.k, e.t104, e.t124, I(48)>>)>>
    [] line = 229 -> <<"t136", Sub(e.t135, Prod(<<e.t2, e.t41, e.t96, I(24)>>))>>
    [] line = 230 -> <<"t138", Prod(<<e.t41, e.t124, I(12)>>)>>
    [] line = 231 -> <<"t139", Sub(e.t138, I(1))>>
    [] line = 232 -> <<"t140", Mul(e.f, e.t3)>>
    [] line = 233 -> <<"t142", Mul(e.g, e.t2)>>
    [] line = 234 -> <<"t141", Sub(e.t140, e.t142)>>
    [] line = 235 -> <<"t143", Prod(<<e.Thr, e.si2can, e.t6, e.t28, e.t112, e.t113>>)>>
    [] line = 236 -> <<"t151", Prod(<<e.J2, e.t39, e.t41, e.t42, e.t52, e.t96, I(12)>>)>>
    [] line = 237 -> <<"t144", Sub(e.t143, e.t151)>>
    [] line = 238 -> <<"t145", Prod(<<e.J2, e.t4, e.t5, e.t39, e.t139, e.t141, I(6)>>)>>
    [] line = 239 -> <<"t146", Prod(<<e.J2, e.t39, e.t41, e.t42, e.t52, e.t96, I(36)>>)>>
    [] line = 240 -> <<"t147", Add(e.t145, e.t146)>>
    [] line = 241 -> <<"t148", Prod(<<e.J2, e.t39, e.t42, e.t139, Div(I(3), I(2))>>)>>
    [] line = 242 -> <<"t149", Prod(<<e.Thr, e.si2can, e.t6, e.t37, e.t112, e.t113>>)>>
    [] line = 243 -> <<"t150", Add(e.t148, e.t149)>>
    [] line = 244 -> <<"t152", Pow(e.t52, 2)>>
    [] line = 245 -> <<"t153", Prod(<<e.J2, e.t39, e.t41, e.t42, e.t152, I(12)>>)>>
    [] line = 246 -> <<"t154", Prod(<<e.J2, e.t4, e.t5, e.t39, e.t41, e.t52, e.t96, e.t141,
            I(48)>>)>>
    [] line = 247 -> <<"t155", Prod(<<e.J2, e.t39, e.t41, e.t42, e.t52, e.t65, I(6)>>)>>
    [] line = 248 -> <<"t156", Prod(<<e.J2, e.t4, e.t5, e.t39, e.t41, e.t65, e.t96, Sub(e.t140,
            e.t142), I(24)>>)>>
    [] line = 249 -> <<"t157", Add(e.t155, e.t156)>>
    [] line = 250 -> <<"t158", Div(I(1), Pow(e.m, 2))>>
    [] line = 252 -> <<"dxdt0", Prod(<<e.t11, e.t17, Add(e.t53, Prod(<<e.Thr, e.si2can, e.t6,
            e.t28, e.t49, Add(Mul(Tanh(Mul(e.t43, Sum(<<e.pco7, Prod(<<e.c, e.si2can, e.t6,
            Sqrt(Sum(<<e.t34, e.t38, Pow(e.t16, 2)>>))>>), Neg(I(1))>>))), Div(I(1), I(2))),
            Div(I(1), I(2)))>>)), I(-2)>>)>>
    [] line = 253 -> <<"dxdt1", Sum(<<Prod(<<e.t3, e.t10, Add(e.t62, Prod(<<e.J2, e.t39, e.t42,
            Sub(Prod(<<Pow(e.t40, 2), e.t41, I(12)>>), I(1)), Div(I(3), I(2))>>))>>),
            Neg(Prod(<<e.t10, e.t11, e.t23, e.t64>>)), Prod(<<e.g, e.t10, e.t11, e.t15,
            e.t67>>)>>)>>
    [] line = 254 -> <<"dxdt2", Sum(<<Prod(<<Neg(e.t2), e.t10, Add(e.t62, Prod(<<e.J2, e.t39,
            e.t42, Sub(Prod(<<e.t41, Pow(e.t61, 2), I(12)>>), I(1)), Div(I(3), I(2))>>))>>),
            Neg(Prod(<<e.t10, e.t11, e.t26, e.t64>>)), Neg(Prod(<<e.f, e.t10, e.t11, e.t15,
            e.t67>>))>>)>>
    [] line = 255 -> <<"dxdt3", Prod(<<e.t2, e.t10, e.t11, e.t14, e.t67, Div(I(-1), I(2))>>)>>
    [] line = 256 -> <<"dxdt4", Prod(<<e.t3, e.t10, e.t11, e.t14, e.t67, Div(I(-1), I(2))>>)>>
    [] line = 257 -> <<"dxdt5", Sub(Mul(e.t5, e.t79), Prod(<<e.t10, e.t11, e.t15, e.t67>>))>>
    [] line = 258 -> <<"dxdt6", Div(Neg(Mul(e.Thr, e.t60)), e.c)>>
    [] line = 260 -> <<"dxdt7", Sum(<<Mul(e.pco6, Sum(<<Prod(<<e.t5, e.t88, Div(I(3), I(2))>>),
            Prod(<<e.t11, e.t67, e.t70, Sub(e.t7, e.t29), Div(I(1), I(2))>>), Prod(<<e.J2, e.t4,
            e.t5, e.t41, e.t65, Pow(e.t69, 2), e.t72, I(24)>>)>>)), Neg(Mul(e.pco2,
            Sum(<<Prod(<<e.t3, e.t70, Add(e.t62, Prod(<<e.J2, e.t39, e.t42, Sub(Prod(<<e.t41,
            Pow(e.t71, 2), I(12)>>), I(1)), Div(I(3), I(2))>>)), Div(I(1), I(2))>>),
            Neg(Prod(<<e.t11, e.t23, e.t64, e.t70, Div(I(1), I(2))>>)), Neg(Prod(<<e.J2, e.t3,
            e.t42, e.t72, Sub(Prod(<<e.t41, Pow(e.t73, 2), I(12)>>), I(1)), I(6)>>)), Prod(<<e.g,
            e.t11, e.t15, e.t67, e.t70, Div(I(1), I(2))>>), Prod(<<e.J2, e.g, e.t4, e.t5, e.t41,
            e.t65, e.t72, Pow(e.t74, 2), I(24)>>), Prod(<<e.J2, e.t4, e.t5, e.t15, e.t23, e.t41,
            e.t52, e.t72, I(48)>>)>>))), Mul(e.pco3, Sum(<<Prod(<<e.t2, e.t70, Add(e.t62,
            Prod(<<e.J2, e.t39, e.t42, Sub(Prod(<<e.t41, Pow(e.t75, 2), I(12)>>), I(1)),
            Div(I(3), I(2))>>)), Div(I(1), I(2))>>), Prod(<<e.t11, e.t26, e.t70, Add(e.t53,
            e.t63), Div(I(1), I(2))>>), Neg(Prod(<<e.J2, e.t2, e.t42, e.t72, Sub(Prod(<<e.t41,
            Pow(e.t76, 2), I(12)>>), I(1)), I(6)>>)), Prod(<<e.f, e.t11, e.t67, e.t70, Sub(e.t7,
            e.t29), Div(I(1), I(2))>>), Prod(<<e.J2, e.f, e.t4, e.t5, e.t41, e.t65, e.t72,
            Pow(e.t77, 2), I(24)>>), Neg(Prod(<<e.J2, e.t4, e.t5, e.t15, e.t26, e.t41, e.t52,
            e.t72, I(48)>>))>>)), Prod(<<e.pco1, e.t10, e.t11, Add(e.t53, e.t63), I(3)>>),
            Prod(<<e.pco4, e.t2, e.t11, e.t14, e.t67, e.t70, Div(I(1), I(4))>>), Prod(<<e.pco5,
            e.t3, e.t11, e.t14, e.t67, e.t70, Div(I(1), I(4))>>), Neg(Prod(<<e.J2, e.pco1, e.t4,
            e.t5, e.t15, e.t41, e.t52, e.t80, I(96)>>)), Prod(<<e.J2, e.pco4, e.t2, e.t4, e.t5,
            e.t65, e.t72, e.t78, Sub(e.t7, e.t29), I(12)>>), Prod(<<e.J2, e.pco5, e.t3, e.t4,
            e.t5, e.t65, e.t72, e.t78, Sub(e.t7, e.t29), I(12)>>)>>)>>
    [] line = 262 -> <<"dxdt8", Sum(<<Mul(e.pco3, Sum(<<e.t90, Prod(<<e.t10, e.t11, e.t15,
            e.t67>>), Neg(Prod(<<e.t2, e.t10, e.t26, e.t82, Add(e.t53, e.t63)>>)),
            Neg(Prod(<<e.f, e.t2, e.t10, e.t67, e.t82, Sub(e.t7, e.t29)>>)), Prod(<<e.J2, e.t4,
            e.t5, e.t80, e.t85, Sub(Prod(<<e.t41, Pow(e.t86, 2), I(12)>>), I(1)), I(6)>>),
            Neg(Prod(<<e.J2, e.f, e.t2, e.t5, e.t41, e.t65, e.t80, Pow(e.t87, 2), I(24)>>)),
            Prod(<<e.J2, e.t2, e.t5, e.t15, e.t26, e.t41, e.t52, e.t80, I(48)>>)>>)), Mul(e.pco2,
            Sum(<<Prod(<<e.t10, e.t11, e.t64, Add(e.t85, I(1))>>), Neg(Prod(<<e.t2, e.t10, e.t23,
            e.t82, Add(e.t53, e.t63)>>)), Prod(<<e.g, e.t2, e.t10, e.t15, e.t67, e.t82>>),
            Neg(Prod(<<e.J2, e.t2, e.t3, e.t4, e.t5, e.t80, Sub(Prod(<<e.t41, Pow(e.t83, 2),
            I(12)>>), I(1)), I(6)>>)), Prod(<<e.J2, e.g, e.t2, e.t5, e.t41, e.t65, e.t80,
            Pow(e.t84, 2), I(24)>>), Prod(<<e.J2, e.t2, e.t5, e.t15, e.t23, e.t41, e.t52, e.t80,
            I(48)>>)>>)), Neg(Mul(e.pco6, Sum(<<Prod(<<e.t2, e.t4, e.t79, I(2)>>), Prod(<<e.t2,
            e.t10, e.t15, e.t67, e.t82>>), Prod(<<e.J2, e.t2, e.t5, e.t41, e.t65, e.t80,
            Pow(e.t81, 2), I(24)>>)>>))), Neg(Prod(<<e.pco1, e.t2, e.t17, e.t64, e.t82, I(2)>>)),
            Neg(Prod(<<e.pco4, e.t10, e.t14, e.t67, e.t82, e.t85, Div(I(1), I(2))>>)),
            Neg(Prod(<<e.pco5, e.t2, e.t3, e.t10, e.t14, e.t67, e.t82, Div(I(1), I(2))>>)),
            Prod(<<e.J2, e.pco1, e.t2, e.t5, e.t41, e.t52, e.t88, Sub(e.t7, e.t29), I(96)>>),
            Neg(Prod(<<e.J2, e.pco4, e.t5, e.t15, e.t65, e.t78, e.t80, e.t85, I(12)>>)),
            Neg(Prod(<<e.J2, e.pco5, e.t2, e.t3, e.t5, e.t15, e.t65, e.t78, e.t80, I(12)>>))>>)>>
    [] line = 264 -> <<"dxdt9", Sum(<<Mul(e.pco2, Sum(<<e.t90, Neg(Prod(<<e.t10, e.t11, e.t67,
            Sub(e.t7, e.t29)>>)), Neg(Prod(<<e.t3, e.t10, e.t23, e.t82, Add(e.t53, e.t63)>>)),
            Prod(<<e.g, e.t3, e.t10, e.t15, e.t67, e.t82>>), Neg(Prod(<<e.J2, e.t4, e.t5, e.t80,
            e.t92, Sub(Prod(<<e.t41, Pow(e.t89, 2), I(12)>>), I(1)), I(6)>>)), Prod(<<e.J2, e.g,
            e.t3, e.t5, e.t41, e.t65, e.t80, Pow(e.t91, 2), I(24)>>), Prod(<<e.J2, e.t3, e.t5,
            e.t15, e.t23, e.t41, e.t52, e.t80, I(48)>>)>>)), Neg(Mul(e.pco6, Sum(<<Prod(<<e.t3,
            e.t4, e.t79, I(2)>>), Prod(<<e.t3, e.t10, e.t15, e.t67, e.t82>>), Prod(<<e.J2, e.t3,
            e.t5, e.t41, e.t65, e.t80, Pow(e.t95, 2), I(24)>>)>>))), Mul(e.pco3,
            Sum(<<Prod(<<e.t10, e.t11, e.t64, Add(e.t92, I(1))>>), Neg(Prod(<<e.t3, e.t10, e.t26,
            e.t82, Add(e.t53, e.t63)>>)), Neg(Prod(<<e.f, e.t3, e.t10, e.t67, e.t82, Sub(e.t7,
            e.t29)>>)), Prod(<<e.J2, e.t2, e.t3, e.t4, e.t5, e.t80, Sub(Prod(<<e.t41, Pow(e.t93,
            2), I(12)>>), I(1)), I(6)>>), Neg(Prod(<<e.J2, e.f, e.t3, e.t5, e.t41, e.t65, e.t80,
            Pow(e.t94, 2), I(24)>>)), Prod(<<e.J2, e.t3, e.t5, e.t15, e.t26, e.t41, e.t52, e.t80,
            I(48)>>)>>)), Neg(Prod(<<e.pco1, e.t3, e.t17, e.t64, e.t82, I(2)>>)),
            Neg(Prod(<<e.pco5, e.t10, e.t14, e.t67, e.t82, e.t92, Div(I(1), I(2))>>)),
            Neg(Prod(<<e.pco4, e.t2, e.t3, e.t10, e.t14, e.t67, e.t82, Div(I(1), I(2))>>)),
            Prod(<<e.J2, e.pco1, e.t3, e.t5, e.t41, e.t52, e.t88, Sub(e.t7, e.t29), I(96)>>),
            Neg(Prod(<<e.J2, e.pco5, e.t5, e.t15, e.t65, e.t78, e.t80, e.t92, I(12)>>)),
            Neg(Prod(<<e.J2, e.pco4, e.t2, e.t3, e.t5, e.t15, e.t65, e.t78, e.t80, I(12)>>))>>)>>
    [] line = 266 -> <<"dxdt10", Sum(<<Mul(e.pco3, Sum(<<Prod(<<e.t10, e.t11, e.t26, e.t121>>),
            Neg(Prod(<<e.J2, e.t2, e.t42, e.t80, e.t126, Div(I(3), I(2))>>)), Prod(<<e.f, e.t3,
            e.t10, e.t11, e.t115>>), Prod(<<e.f, e.t10, e.t11, e.t96, e.t118>>)>>)), Mul(e.pco2,
            Sum(<<Prod(<<e.t10, e.t11, e.t23, e.t121>>), Prod(<<e.J2, e.t3, e.t42, e.t80, e.t126,
            Div(I(3), I(2))>>), Neg(Prod(<<e.g, e.t3, e.t10, e.t11, e.t115>>)), Neg(Prod(<<e.g,
            e.t10, e.t11, e.t96, e.t118>>))>>)), Mul(e.pco6, Add(Prod(<<e.t3, e.t10, e.t11,
            e.t115>>), Prod(<<e.t10, e.t11, e.t96, e.t118>>))), Prod(<<e.pco1, e.t11, e.t17,
            e.t121, I(2)>>), Prod(<<e.h, e.pco4, e.t2, e.t10, e.t11, e.t115>>), Prod(<<e.h,
            e.pco5, e.t3, e.t10, e.t11, e.t115>>), Neg(Prod(<<e.pco4, e.t2, e.t10, e.t11, e.t14,
            e.t118, Div(I(1), I(2))>>)), Neg(Prod(<<e.pco5, e.t3, e.t10, e.t11, e.t14, e.t118,
            Div(I(1), I(2))>>))>>)>>
    [] line = 268 -> <<"dxdt11", Sum(<<Mul(Neg(e.pco3), Sum(<<Prod(<<e.t10, e.t11, e.t26,
            e.t133>>), Prod(<<e.J2, e.t2, e.t42, e.t80, e.t136, Div(I(3), I(2))>>), Prod(<<e.f,
            e.t2, e.t10, e.t11, e.t115>>), Prod(<<e.f, e.t10, e.t11, e.t96, e.t130>>)>>)),
            Mul(e.pco2, Sum(<<Prod(<<Neg(e.t10), e.t11, e.t23, e.t133>>), Prod(<<e.J2, e.t3,
            e.t42, e.t80, e.t136, Div(I(3), I(2))>>), Prod(<<e.g, e.t2, e.t10, e.t11, e.t115>>),
            Prod(<<e.g, e.t10, e.t11, e.t96, e.t130>>)>>)), Neg(Mul(e.pco6, Add(Prod(<<e.t2,
            e.t10, e.t11, e.t115>>), Prod(<<e.t10, e.t11, e.t96, e.t130>>)))), Neg(Prod(<<e.pco1,
            e.t11, e.t17, e.t133, I(2)>>)), Prod(<<e.k, e.pco4, e.t2, e.t10, e.t11, e.t115>>),
            Prod(<<e.k, e.pco5, e.t3, e.t10, e.t11, e.t115>>), Prod(<<e.pco4, e.t2, e.t10, e.t11,
            e.t14, e.t130, Div(I(1), I(2))>>), Prod(<<e.pco5, e.t3, e.t10, e.t11, e.t14, e.t130,
            Div(I(1), I(2))>>)>>)>>
    [] line = 270 -> <<"dxdt12", Sum(<<Mul(e.pco6, Sum(<<Prod(<<e.t4, e.t79, Sub(e.t140, e.t142),
            I(2)>>), Prod(<<e.t10, e.t11, e.t52, e.t115>>), Prod(<<e.t10, e.t11, e.t96,
            e.t157>>), Neg(Prod(<<e.t10, e.t82, e.t96, e.t115, e.t141>>))>>)), Mul(e.pco3,
            Sum(<<Prod(<<Neg(e.t2), e.t10, e.t147>>), Neg(Prod(<<e.t3, e.t10, e.t150>>)),
            Prod(<<e.t10, e.t11, Sub(e.t22, Mul(e.t3, e.t141)), Sub(e.t143, e.t151)>>),
            Prod(<<e.t10, e.t11, e.t26, Sum(<<e.t153, e.t154, Neg(Prod(<<e.J2, e.t39, e.t41,
            e.t42, e.t124, I(12)>>))>>)>>), Prod(<<e.t10, e.t26, e.t82, Sub(e.t140, e.t142),
            Sub(e.t143, e.t151)>>), Prod(<<e.f, e.t10, e.t11, e.t52, e.t115>>), Prod(<<e.f,
            e.t10, e.t11, e.t96, e.t157>>), Neg(Prod(<<e.f, e.t10, e.t82, e.t96, e.t115,
            e.t141>>))>>)), Mul(e.pco2, Sum(<<Prod(<<e.t3, e.t10, e.t147>>), Neg(Prod(<<e.t2,
            e.t10, e.t150>>)), Prod(<<e.t10, e.t11, e.t23, Sum(<<e.t153, e.t154, Neg(Prod(<<e.J2,
            e.t39, e.t41, e.t42, e.t124, I(12)>>))>>)>>), Neg(Prod(<<e.t10, e.t11, e.t144,
            Add(e.t25, Mul(e.t2, e.t141))>>)), Neg(Prod(<<e.g, e.t10, e.t11, e.t52, e.t115>>)),
            Neg(Prod(<<e.g, e.t10, e.t11, e.t96, e.t157>>)), Prod(<<e.t10, e.t23, e.t82, e.t141,
            e.t144>>), Prod(<<e.g, e.t10, e.t82, e.t96, e.t115, e.t141>>)>>)), Prod(<<e.pco1,
            e.t11, e.t17, Sum(<<e.t153, e.t154, Neg(Prod(<<e.J2, e.t39, e.t41, e.t42, e.t124,
            I(12)>>))>>), I(2)>>), Prod(<<e.pco1, e.t17, e.t82, Sub(e.t140, e.t142), Sub(e.t143,
            e.t151), I(2)>>), Neg(Prod(<<e.pco4, e.t3, e.t10, e.t11, e.t14, e.t115, Div(I(1),
            I(2))>>)), Prod(<<e.pco5, e.t2, e.t10, e.t11, e.t14, e.t115, Div(I(1), I(2))>>),
            Neg(Prod(<<e.pco4, e.t2, e.t10, e.t11, e.t14, e.t157, Div(I(1), I(2))>>)),
            Neg(Prod(<<e.pco5, e.t3, e.t10, e.t11, e.t14, e.t157, Div(I(1), I(2))>>)),
            Prod(<<e.pco4, e.t2, e.t10, e.t14, e.t82, e.t115, Sub(e.t140, e.t142), Div(I(1),
            I(2))>>), Prod(<<e.pco5, e.t3, e.t10, e.t14, e.t82, e.t115, Sub(e.t140, e.t142),
            Div(I(1), I(2))>>)>>)>>
    [] line = 272 -> <<"dxdt13", Sum(<<Mul(Neg(e.pco3), Sum(<<Prod(<<e.Thr, e.si2can, e.t2,
            e.t10, e.t37, e.t112, e.t113, e.t158>>), Prod(<<e.Thr, e.si2can, e.t10, e.t11, e.t26,
            e.t28, e.t112, e.t113, e.t158>>), Neg(Prod(<<e.Thr, e.si2can, e.f, e.t10, e.t11,
            e.t96, e.t101, e.t112, e.t113, e.t158>>))>>)), Neg(Mul(e.pco2,
            Sum(<<Prod(<<Neg(e.Thr), e.si2can, e.t3, e.t10, e.t37, e.t112, e.t113, e.t158>>),
            Prod(<<e.Thr, e.si2can, e.t10, e.t11, e.t23, e.t28, e.t112, e.t113, e.t158>>),
            Prod(<<e.Thr, e.si2can, e.g, e.t10, e.t11, e.t96, e.t101, e.t112, e.t113,
            e.t158>>)>>))), Neg(Prod(<<e.Thr, e.si2can, e.pco1, e.t11, e.t17, e.t28, e.t112,
            e.t113, e.t158, I(2)>>)), Prod(<<e.Thr, e.si2can, e.pco6, e.t10, e.t11, e.t96,
            e.t101, e.t112, e.t113, e.t158>>), Neg(Prod(<<e.Thr, e.si2can, e.pco4, e.t2, e.t10,
            e.t11, e.t14, e.t101, e.t112, e.t113, e.t158, Div(I(1), I(2))>>)), Neg(Prod(<<e.Thr,
            e.si2can, e.pco5, e.t3, e.t10, e.t11, e.t14, e.t101, e.t112, e.t113, e.t158,
            Div(I(1), I(2))>>))>>)>>
    [] OTHER -> <<>>

\* the statements of lines from..to in order on the local variables e, a
\* quarter of the range at a time; a name in held keeps its value and drops
\* its derivative
RECURSIVE eom_run(_, _, _, _)
eom_run(from, to, e, held) ==
  IF from > to THEN e
  ELSE IF from = to
  THEN LET st == eom_stmt(from, e)
       IN  IF st = <<>> THEN e
           ELSE (st[1] :> (IF st[1] \in held THEN Val(st[2]) ELSE st[2])) @@ e
  ELSE LET q == (to - from) \div 4 + 1
           e1 == eom_run(from, from + q - 1, e, held)
           e2 == eom_run(from + q, from + 2 * q - 1, e1, held)
           e3 == eom_run(from + 2 * q, from + 3 * q - 1, e2, held)
       IN  IF DOMAIN e1 = {} \/ DOMAIN e2 = {} \/ DOMAIN e3 = {} THEN e
           ELSE eom_run(from + 3 * q, to, e3, held)

eom_args(x, rh, J2, c, si2can, Thr) ==
  [J2 |-> J2, c |-> c, si2can |-> si2can, Thr |-> Thr, rho |-> rh,
   p |-> x[1], f |-> x[2], g |-> x[3], h |-> x[4], k |-> x[5], L |-> x[6], m |-> x[7],
   pco1 |-> x[8], pco2 |-> x[9], pco3 |-> x[10], pco4 |-> x[11], pco5 |-> x[12],
   pco6 |-> x[13], pco7 |-> x[14]]

dxdtOf(e) ==
  <<e.dxdt0, e.dxdt1, e.dxdt2, e.dxdt3, e.dxdt4, e.dxdt5, e.dxdt6, e.dxdt7, e.dxdt8,
    e.dxdt9, e.dxdt10, e.dxdt11, e.dxdt12, e.dxdt13>>

\* the call with the thrust level cut to zero in eclipse
eom_eclipsed(t, x, rh, eclipse) ==
  LET J2 == cn.J2
      c == sc.c
      si2can == sc.si2can
      Thr == IF eclipse THEN Zero ELSE sc.Thr
      e == eom_run(94, 272, eom_args(x, rh, J2, c, si2can, Thr), {})
  IN  [dxdt |-> dxdtOf(e), locals |-> e]

\* the call: its local variables when it returns, and dxdt, the value returned
eom_mee_twobodyJ2_minfuel(t, x, rh, eclipse) ==
  LET J2 == cn.J2
      c == sc.c
      si2can == sc.si2can
      Thr == sc.Thr
      e == eom_run(94, 272, eom_args(x, rh, J2, c, si2can, Thr), {})
  IN  [dxdt |-> dxdtOf(e), locals |-> e]

\* the samples whose |B.T lam| is rational: every root the program takes of
\* them is exact
Rational(x) == IsSquare(Dot(BTLof(x), BTLof(x)))

\* the orbits a, e, inc, Om, w, nu whose sqrt(mu/p) is rational
ExactOrbit(o) == IsSquare(Div(cn.mu, Mul(o[1], Sub(I(1), Pow(o[2], 2)))))

---------------------------------------------------------------------------
(* The call stack *)

call(a) ==
  CASE a[1] = "Mul" -> dMul(a[2], a[3])
    [] a[1] = "Add" -> dAdd(a[2], a[3])
    [] a[1] = "Prod" -> dProd(a[2], 1, Len(a[2]))
    [] a[1] = "Sum" -> dSum(a[2], 1, Len(a[2]))
    [] a[1] = "Neg" -> dNeg(a[2])
    [] a[1] = "Inv" -> dInv(a[2])
    [] a[1] = "Sqrt" -> dSqrt(a[2])
    [] a[1] = "Cos" -> dCos(a[2])
    [] a[1] = "Sin" -> dSin(a[2])
    [] a[1] = "AbsQ" -> dAbsQ(a[2])
    [] a[1] = "Tanh" -> dTanh(a[2])
    [] a[1] = "mee2rv" -> mee2rv(a[2], a[3], a[4], a[5], a[6], a[7])
    [] a[1] = "classical2mee" -> classical2mee(a[2], a[3], a[4], a[5], a[6], a[7])
    [] a[1] = "inertial2radial" -> inertial2radial(a[2], a[3])
    [] a[1] = "switch_function" -> switch_function(a[2], a[3])
    [] a[1] = "thrust_angle" -> thrust_angle(a[2], a[3], a[4])
    [] a[1] = "eom_mee_twobodyJ2_minfuel" -> eom_mee_twobodyJ2_minfuel(a[2], a[3], a[4], a[5])
    [] a[1] = "Rational" -> Rational(a[2])
    [] a[1] = "ExactOrbit" -> ExactOrbit(a[2])

---------------------------------------------------------------------------
(* Configuration and inputs *)

\* const.py
Const(J2, hasP) ==
  [mu |-> I(1), J2 |-> J2, Req |-> I(1), DU |-> I(1), Power |-> I(2), g0 |-> I(1),
   hasP |-> hasP, P |-> IF hasP THEN I(3) ELSE NaN]

\* spacecraft_params.py
Spacecraft(Thr) ==
  [c |-> I(2), si2can |-> I(1), A |-> I(1), eta |-> Half, Isp |-> I(2), Thr |-> Thr]

\* the configurations: <<cn, sc>>
Configs ==
  {<<Const(Zero, FALSE), Spacecraft(Zero)>>,
   <<Const(Zero, TRUE), Spacecraft(One)>>,
   <<Const(One, FALSE), Spacecraft(One)>>}

MaxBatch == 2
MaxCalls == 2

Rhos == {Half, I(2)}

Quarter(k) == <<k, 0>>
Theta == <<0, 1>>

\* states p, f, g, h, k, L, m with p > 0, m > 0 and 1 + f cos L + g sin L > 0
OrbitStates ==
  {<<p, fg[1], fg[2], hk[1], hk[2], L, I(2)>> :
     p \in {I(1), I(4)}, fg \in {<<Zero, Zero>>, <<Half, Zero>>, <<Half, Q(-1, 2)>>},
     hk \in {<<Zero, Zero>>, <<One, Half>>}, L \in {Quarter(0), Quarter(1)}}
  \cup {<<I(1), Zero, Zero, One, Zero, Theta, I(1)>>}

Costates ==
  {<<Zero, Zero, Zero, Zero, Zero, Zero, Zero>>,
   <<One, Zero, Zero, Zero, Zero, Zero, Zero>>,
   <<Zero, Zero, Zero, One, Zero, Zero, One>>,
   <<Zero, Zero, One, Zero, Zero, One, Zero>>}

EomSamples == {x \in {s \o l : s \in OrbitStates, l \in Costates} : call(<<"Rational", x>>)}

\* a short trajectory: thrusting, coasting, at the switch, with no thrust direction
TrajSamples ==
  {<<I(1), Zero, Zero, Zero, Zero, Quarter(0), I(2), Half, Zero, Zero, Zero, Zero, Zero, Zero>>,
   <<I(1), Zero, Zero, Zero, Zero, Quarter(2), I(2), One, Zero, Zero, Zero, Zero, Zero, One>>,
   <<I(4), Zero, Zero, One, Zero, Quarter(1), I(2), Zero, Zero, One, Zero, Zero, Zero, I(-1)>>,
   <<I(1), Half, Q(-1, 2), Zero, Half, Quarter(2), I(2), Zero, Zero, Zero, One, Zero, Zero, Zero>>,
   <<I(4), Zero, Zero, One, Half, Quarter(0), I(2), Zero, Zero, Zero, Zero, Zero, Zero, Zero>>,
   <<I(1), Zero, Zero, One, Zero, Theta, I(1), Zero, Zero, Zero, Zero, Zero, One, Half>>}

RECURSIVE Batches(_)
Batches(n) ==
  IF n = 0 THEN {<<>>}
  ELSE {Append(b, x) : b \in Batches(n - 1), x \in TrajSamples}

---------------------------------------------------------------------------
(* The trajectory pipeline: the solver evaluates the dynamics sample by      *)
(* sample, then the history is post-processed.                             *)

vcfg == <<cn, sc, data, rho>>

Init ==
  /\ \E cfg \in Configs : cn = cfg[1] /\ sc = cfg[2]
  /\ data \in UNION {Batches(n) : n \in 1..MaxBatch}
  /\ rho \in Rhos
  /\ pc = [at |-> "integrate", eclipse |-> FALSE, calls |-> <<>>]
  /\ dx = <<>>
  /\ sf = None
  /\ ta = None
  /\ cv = None

\* the integrator evaluates the derivative at the next sample
Integrate ==
  /\ pc.at = "integrate"
  /\ Len(dx) < Len(data)
  /\ dx' = Append(dx, call(<<"eom_mee_twobodyJ2_minfuel", I(Len(dx)), data[Len(dx) + 1], rho, pc.eclipse>>))
  /\ pc' = [pc EXCEPT !.calls = Append(@, <<I(Len(dx)), pc.eclipse>>)]
  /\ UNCHANGED <<vcfg, sf, ta, cv>>

PostSwitch ==
  /\ pc.at = "integrate"
  /\ Len(dx) = Len(data)
  /\ sf' = call(<<"switch_function", data, rho>>)
  /\ pc' = [pc EXCEPT !.at = "post"]
  /\ UNCHANGED <<vcfg, dx, ta, cv>>

PostThrust ==
  /\ pc.at = "post"
  /\ \E eclipse \in BOOLEAN :
       /\ ta' = call(<<"thrust_angle", data, rho, eclipse>>)
       /\ pc' = [pc EXCEPT !.at = "done", !.eclipse = eclipse]
  /\ UNCHANGED <<vcfg, dx, sf, cv>>

Next == Integrate \/ PostSwitch \/ PostThrust

Spec == Init /\ [][Next]_vars

---------------------------------------------------------------------------
(* One sample, evaluated and re-evaluated by the solver *)

InitEom ==
  /\ \E cfg \in Configs : cn = cfg[1] /\ sc = cfg[2]
  /\ data = <<>>
  /\ rho \in {Half}
  /\ pc = [at |-> "integrate", eclipse |-> FALSE, calls |-> <<>>]
  /\ dx = <<>>
  /\ sf = None
  /\ ta = None
  /\ cv = None

\* the solver asks for the derivative at a state x
Evaluate ==
  /\ pc.at = "integrate"
  /\ dx = <<>>
  /\ \E x \in EomSamples, eclipse \in BOOLEAN :
       /\ data' = <<x>>
       /\ dx' = <<call(<<"eom_mee_twobodyJ2_minfuel", I(0), x, rho, eclipse>>)>>
       /\ pc' = [pc EXCEPT !.eclipse = eclipse, !.calls = <<<<I(0), eclipse>>>>]
  /\ UNCHANGED <<cn, sc, rho, sf, ta, cv>>

\* the same sample again, later and with either eclipse setting
Reevaluate ==
  /\ pc.at = "integrate"
  /\ dx # <<>>
  /\ Len(dx) < MaxCalls
  /\ \E eclipse \in BOOLEAN :
       /\ dx' = Append(dx, call(<<"eom_mee_twobodyJ2_minfuel", I(Len(dx)), data[1], rho, eclipse>>))
       /\ pc' = [pc EXCEPT !.eclipse = eclipse, !.calls = Append(@, <<I(Len(dx)), eclipse>>)]
  /\ UNCHANGED <<vcfg, sf, ta, cv>>

SwitchOfSample ==
  /\ pc.at = "integrate"
  /\ Len(dx) = 1
  /\ sf' = call(<<"switch_function", data, rho>>)
  /\ pc' = [pc EXCEPT !.at = "post"]
  /\ UNCHANGED <<vcfg, dx, ta, cv>>

NextEom == Evaluate \/ Reevaluate \/ SwitchOfSample

SpecEom == InitEom /\ [][NextEom]_vars

---------------------------------------------------------------------------
(* Element conversions: classical elements to equinoctial elements, to     *)
(* position and velocity, to the radial frame                               *)

MaxOrbits == 2

Mus == {I(1), I(7000)}

\* inc, Om, w, nu
OrbitAngles ==
  {<<Quarter(0), Quarter(0), Quarter(0), Quarter(0)>>,
   <<Quarter(1), Quarter(0), Quarter(1), Quarter(1)>>,
   <<Theta, Quarter(1), Quarter(0), Quarter(2)>>,
   <<Theta, Quarter(1), Theta, Quarter(1)>>}

\* a, e, inc, Om, w, nu with a > 0 and 0 <= e < 1
Orbits ==
  {<<a, e, g[1], g[2], g[3], g[4]>> :
     a \in {I(4), I(7000)}, e \in {Zero, Q(3, 5)}, g \in OrbitAngles}

\* position and velocity pairs given directly
StateVectors ==
  {<<<<I(3), I(4), Zero>>, <<Zero, Zero, I(1)>>>>,
   <<<<I(1), I(2), I(2)>>, <<I(2), I(1), I(-2)>>>>,
   <<<<Zero, Zero, I(-2)>>, <<I(3), I(4), I(5)>>>>,
   <<<<I(2), I(3), I(6)>>, <<I(3), I(-6), I(2)>>>>}

InitConv ==
  /\ \E mu \in Mus : cn = [Const(Zero, FALSE) EXCEPT !.mu = mu]
  /\ sc = Spacecraft(Zero)
  /\ data = <<>>
  /\ rho = Half
  /\ pc = [at |-> "convert", eclipse |-> FALSE, calls |-> <<>>]
  /\ dx = <<>>
  /\ sf = None
  /\ ta = None
  /\ cv = [at |-> "classical", coe |-> <<>>, mee |-> <<>>, r |-> <<>>, v |-> <<>>, M |-> <<>>]

\* one more orbit, given by classical elements, is converted
Classical2Mee ==
  /\ cv.at = "classical"
  /\ Len(cv.coe) < MaxOrbits
  /\ \E o \in Orbits :
       /\ call(<<"ExactOrbit", o>>)
       /\ cv' = [cv EXCEPT !.coe = Append(@, o),
                           !.mee = Append(@, call(<<"classical2mee">> \o o))]
  /\ UNCHANGED <<vcfg, pc, dx, sf, ta>>

\* the orbits are converted to positions and velocities together
Mee2Rv ==
  /\ cv.at = "classical"
  /\ cv.mee # <<>>
  /\ LET rv == call(<<"mee2rv", Col(cv.mee, 0), Col(cv.mee, 1), Col(cv.mee, 2),
                      Col(cv.mee, 3), Col(cv.mee, 4), Col(cv.mee, 5)>>)
     IN  cv' = [cv EXCEPT !.at = "cartesian", !.r = rv.r, !.v = rv.v]
  /\ UNCHANGED <<vcfg, pc, dx, sf, ta>>

\* a position and a velocity that come from elsewhere
Observe ==
  /\ cv.at = "classical"
  /\ cv.coe = <<>>
  /\ \E s \in StateVectors :
       cv' = [cv EXCEPT !.at = "cartesian", !.r = <<s[1]>>, !.v = <<s[2]>>]
  /\ UNCHANGED <<vcfg, pc, dx, sf, ta>>

\* the radial frame of the next position and velocity
Inertial2Radial ==
  /\ cv.at = "cartesian"
  /\ Len(cv.M) < Len(cv.r)
  /\ LET i == Len(cv.M) + 1
     IN  cv' = [cv EXCEPT !.M = Append(@, call(<<"inertial2radial", cv.r[i], cv.v[i]>>))]
  /\ UNCHANGED <<vcfg, pc, dx, sf, ta>>

NextConv == Classical2Mee \/ Mee2Rv \/ Observe \/ Inertial2Radial

SpecConv == InitConv /\ [][NextConv]_vars

---------------------------------------------------------------------------
(* Properties of the trajectory post-processing *)

Outputs == {"r", "v", "u_inert", "u_lvlh", "S", "F", "Pa", "delta", "zeta"}

\* the batch is valid: rho > 0 and every sample has p > 0, m > 0 and a
\* non-zero B.T lam
ValidBatch ==
  /\ Returned(sf)
  /\ Lt(Zero, rho)
  /\ \A i \in 1..Len(data) :
       /\ Lt(Zero, data[i][1])
       /\ Lt(Zero, data[i][7])
       /\ sf.BTL[i] # <<Zero, Zero, Zero>>

\* C1: thrust_angle, called on a batch of valid samples with eclipse either
\* true or false, completes and returns its nine outputs, one entry per
\* sample; it does not end in an error.
C1_ThrustAngleReturns ==
  (pc.at = "done" /\ ValidBatch) =>
    /\ Returned(ta)
    /\ Outputs \subseteq DOMAIN ta
    /\ \A o \in Outputs : Len(ta[o]) = Len(data)

\* the eclipse smoothing of a sample at position ri, from that position alone:
\* in the anti-Sun half-space x < 0 the depth is the distance from the x-axis
\* less Req/DU
OwnZeta(ri, rh) ==
  IF Lt(ri[1], Zero)
  THEN Mul(Half, Add(I(1), Tanh(Div(Sub(norm(<<ri[2], ri[3]>>), Div(cn.Req, cn.DU)), rh))))
  ELSE Zero

\* C2: with eclipse enabled, the eclipse decision and depth of sample i come
\* from sample i's own position only (x_i < 0, gamma_i = |(y_i, z_i)| - Req/DU),
\* so zeta[i], Pa[i], F[i] and u_inert[i] do not depend on the other samples.
C2_EclipseOfOwnSample ==
  (pc.at = "done" /\ pc.eclipse /\ ValidBatch) =>
    /\ Returned(ta)
    /\ \A i \in 1..Len(data) :
         /\ ta.zeta[i] = OwnZeta(ta.r[i], rho)
         /\ ta.Pa[i] = IF Lt(ta.r[i][1], Zero) THEN Mul(ta.zeta[i], cn.Power) ELSE cn.Power

\* C3: with eclipse disabled, Pa[i] is the configured constant solar power and
\* F[i] = (Pa[i]*A*eta/Isp/g0)*delta[i], from that same Pa[i].
C3_ThrustFromAvailablePower ==
  (pc.at = "done" /\ ~pc.eclipse /\ ValidBatch) =>
    /\ Returned(ta)
    /\ \A i \in 1..Len(data) :
         /\ ta.Pa[i] = cn.Power
         /\ ta.F[i] = Mul(Div(Div(Mul(Mul(ta.Pa[i], sc.A), sc.eta), sc.Isp), cn.g0), ta.delta[i])

InUnit(d) == Le(Zero, d) /\ Le(d, One)

\* C4: the throttle delta = 0.5*(1 + tanh(S/rho)) of switch_function, and
\* the same quantity t60 inside eom_mee_twobodyJ2_minfuel, lies in [0, 1], is
\* 0.5 at S = 0 and does not decrease when S grows.
C4_ThrottleInUnitInterval ==
  /\ Returned(sf) =>
       \A i \in 1..Len(data) :
         /\ InUnit(sf.delta[i])
         /\ sf.S[i] = Zero => sf.delta[i] = Half
         /\ \A j \in 1..Len(data) : Le(sf.S[i], sf.S[j]) => Le(sf.delta[i], sf.delta[j])
  /\ \A n \in 1..Len(dx) :
       /\ InUnit(dx[n].locals.t60)
       /\ dx[n].locals.t56 = Zero => dx[n].locals.t60 = Half
       /\ \A m \in 1..Len(dx) :
            Le(dx[n].locals.t56, dx[m].locals.t56) => Le(dx[n].locals.t60, dx[m].locals.t60)

\* a batch with S = 0 at one sample and a larger S with a larger throttle at
\* the other, in both functions
C4_Witness ==
  /\ Returned(sf)
  /\ Len(data) = 2
  /\ Len(dx) = 2
  /\ sf.S[1] = Zero
  /\ sf.delta[1] = Half
  /\ Lt(sf.S[1], sf.S[2])
  /\ Lt(sf.delta[1], sf.delta[2])
  /\ Lt(sf.delta[2], One)
  /\ dx[1].locals.t56 = Zero
  /\ Lt(dx[1].locals.t60, dx[2].locals.t60)

---------------------------------------------------------------------------
(* Properties of the equations of motion *)

ZeroCostates(x) == \A j \in 8..14 : x[j] = Zero

\* 1 + f cos L + g sin L
qOf(x) == Sum(<<One, Mul(x[2], Cos(x[6])), Mul(x[3], Sin(x[6]))>>)

ValidState(x) == Lt(Zero, x[1]) /\ Lt(Zero, x[7]) /\ Lt(Zero, qOf(x)) /\ Lt(Zero, rho)

\* C5: with all seven costates zero, zero thrust magnitude and J2 = 0, at a
\* valid state the six state derivatives are the two-body values:
\* dp = df = dg = dh = dk = 0 and dL = (1 + f cos L + g sin L)^2 / p^1.5, finite.
C5_TwoBodyAtZeroCostates ==
  \A n \in 1..Len(dx) :
    (ZeroCostates(data[1]) /\ sc.Thr = Zero /\ cn.J2 = Zero /\ ValidState(data[1])) =>
      /\ \A j \in 1..5 : dx[n].dxdt[j] = Zero
      /\ dx[n].dxdt[6] = Div(Pow(qOf(data[1]), 2), PowHalf(data[1][1], 3))

\* the sample with a unit derivative on state j (p, f, g, h, k, L, m)
Seed(x, j) ==
  [i \in 1..14 |->
     IF i # j THEN x[i]
     ELSE IF j = 6 THEN <<x[6][1], x[6][2], One>> ELSE Dual(x[j], One)]

\* the Hamiltonian of the costates and the state derivatives
Hamiltonian(e) ==
  Sum(<<Mul(e.pco1, e.dxdt0), Mul(e.pco2, e.dxdt1), Mul(e.pco3, e.dxdt2),
        Mul(e.pco4, e.dxdt3), Mul(e.pco5, e.dxdt4), Mul(e.pco6, e.dxdt5),
        Mul(e.pco7, e.dxdt6)>>)

\* dH/dx_j at the sample, the control (throttle and thrust direction) held fixed
dHdx(x, j) ==
  Der(Hamiltonian(eom_run(94, 258,
        eom_args(Seed(x, j), rho, cn.J2, sc.c, sc.si2can, sc.Thr),
        {"t16", "t28", "t37", "t46"})))

\* C6: at every valid sample each costate derivative dxdt[7..13] equals minus
\* the partial derivative of the Hamiltonian with respect to the
\* corresponding state p, f, g, h, k, L, m.
C6_CostateEquations ==
  (Len(dx) >= 1 /\ ValidState(data[1]) /\ AllFinite(dx[1].dxdt)) =>
    LET grad == [j \in 1..7 |-> dHdx(data[1], j)]
    IN  \A n \in 1..Len(dx), j \in 1..7 : dx[n].dxdt[7 + j] = Neg(grad[j])

\* the same, for the two-body and thrust terms alone
C6_WithoutJ2 ==
  cn.J2 = Zero => C6_CostateEquations

\* C9: the derivative returned for a sample is the same for eclipse true and
\* false and at every time t: the thrust level is always sc.Thr.
C9_EclipseAndTimeIgnored ==
  \A n, m \in 1..Len(dx) : dx[n] = dx[m]

\* the same sample evaluated at two times, once with eclipse and once
\* without, with the engine on and a thrust direction
C9_Witness ==
  /\ Len(dx) = 2
  /\ pc.calls[1][1] # pc.calls[2][1]
  /\ pc.calls[1][2] # pc.calls[2][2]
  /\ sc.Thr # Zero
  /\ Lt(Zero, dx[1].locals.t60)
  /\ AllFinite(dx[1].dxdt)
  /\ dx[1].dxdt[7] # Zero
  /\ dx[1] = dx[2]

\* the thrust acceleration along -BTL/|BTL|: radial, transverse, normal
ThrustAccel(x, BTL, delta) ==
  Scale(NegV(Over(BTL, norm(BTL))), Prod(<<sc.Thr, sc.si2can, Inv(x[7]), delta>>))

\* C10: for one sample and one rho, t56 and t60 inside
\* eom_mee_twobodyJ2_minfuel equal the S and delta of switch_function, and
\* the thrust acceleration in the state equations is along -BTL/|BTL| of
\* switch_function, component by component.
C10_SwitchAndDirectionAgree ==
  (Returned(sf) /\ Len(data) = 1 /\ Len(dx) >= 1) =>
    LET x == data[1]
        e == dx[1].locals
        u == ThrustAccel(x, sf.BTL[1], sf.delta[1])
    IN  /\ e.t56 = sf.S[1]
        /\ e.t60 = sf.delta[1]
        /\ sf.BTL[1] # <<Zero, Zero, Zero>> =>
             /\ <<e.t62, Neg(e.t63), Neg(e.t66)>> = u
             /\ cn.J2 = Zero =>
                  /\ dx[1].dxdt[1] = Prod(<<I(2), x[1], Sqrt(x[1]), Inv(qOf(x)), u[2]>>)
                  /\ dx[1].dxdt[4] =
                       Prod(<<Half, Sqrt(x[1]), Sum(<<One, Pow(x[4], 2), Pow(x[5], 2)>>),
                              Cos(x[6]), Inv(qOf(x)), u[3]>>)

\* a thrusting sample with all three thrust components non-zero
C10_Witness ==
  /\ Returned(sf)
  /\ Len(data) = 1
  /\ Len(dx) = 1
  /\ sc.Thr # Zero
  /\ dx[1].locals.t56 = sf.S[1]
  /\ Lt(Zero, sf.delta[1])
  /\ Lt(sf.delta[1], One)
  /\ \A j \in 1..3 : sf.BTL[1][j] # Zero
  /\ <<dx[1].locals.t62, Neg(dx[1].locals.t63), Neg(dx[1].locals.t66)>>
       = ThrustAccel(data[1], sf.BTL[1], sf.delta[1])
  /\ AllFinite(dx[1].dxdt)

---------------------------------------------------------------------------
(* Properties of the conversions *)

Identity3 == <<<<One, Zero, Zero>>, <<Zero, One, Zero>>, <<Zero, Zero, One>>>>

\* the determinant of a 3 x 3 matrix given by rows
Det3(M) == Dot(M[1], cross(M[2], M[3]))

\* C7: for r and v with r x v # 0, the rows of inertial2radial(r, v) are
\* x = r/|r|, y = z x x and z = (r x v)/|r x v|; they are orthonormal
\* (M M^T = identity) and the determinant is +1.
C7_RadialFrameOrthonormal ==
  \A i \in 1..Len(cv.M) :
    LET r == cv.r[i]
        v == cv.v[i]
        M == cv.M[i]
    IN  cross(r, v) # <<Zero, Zero, Zero>> =>
          /\ M[1] = Over(r, norm(r))
          /\ M[3] = Over(cross(r, v), norm(cross(r, v)))
          /\ M[2] = cross(M[3], M[1])
          /\ [a \in 1..3 |-> [b \in 1..3 |-> Dot(M[a], M[b])]] = Identity3
          /\ Det3(M) = One

\* the frame of an inclined eccentric orbit whose velocity is not
\* perpendicular to its position
C7_Witness ==
  /\ Len(cv.M) = 2
  /\ cv.coe # <<>>
  /\ Dot(cv.r[2], cv.v[2]) # Zero
  /\ \A j \in 1..3 : cv.r[2][j] # Zero /\ cv.v[2][j] # Zero
  /\ cv.M[2][1] = Over(cv.r[2], norm(cv.r[2]))
  /\ Det3(cv.M[2]) = One

\* position and velocity from classical elements by way of the perifocal frame
Classical2rv(o) ==
  LET a == o[1]
      e == o[2]
      ci == Cos(o[3])
      si == Sin(o[3])
      cO == Cos(o[4])
      sO == Sin(o[4])
      cw == Cos(o[5])
      sw == Sin(o[5])
      cnu == Cos(o[6])
      snu == Sin(o[6])
      p == Mul(a, Sub(One, Pow(e, 2)))
      rr == Div(p, Add(One, Mul(e, cnu)))
      sq == Sqrt(Div(cn.mu, p))
      P == <<Sub(Mul(cO, cw), Prod(<<sO, sw, ci>>)), Add(Mul(sO, cw), Prod(<<cO, sw, ci>>)),
             Mul(sw, si)>>
      W == <<Sub(Neg(Mul(cO, sw)), Prod(<<sO, cw, ci>>)),
             Add(Neg(Mul(sO, sw)), Prod(<<cO, cw, ci>>)), Mul(cw, si)>>
  IN  [r |-> [j \in 1..3 |-> Add(Prod(<<rr, cnu, P[j]>>), Prod(<<rr, snu, W[j]>>))],
       v |-> [j \in 1..3 |-> Add(Prod(<<sq, Neg(snu), P[j]>>), Prod(<<sq, Add(e, cnu), W[j]>>))]]

Circular7000 == <<I(7000), Zero, Quarter(0), Quarter(0), Quarter(0), Quarter(0)>>

\* C8: for classical elements with 0 <= e < 1 and 0 <= i < pi,
\* mee2rv(classical2mee(a, e, i, Om, w, nu)) is the position and velocity of
\* the direct conversion; for a = 7000 and the rest zero, classical2mee gives
\* p = 7000, f = g = h = k = L = 0 and mee2rv gives r = (7000, 0, 0),
\* v = (0, sqrt(mu/7000), 0).
C8_ClassicalRoundTrip ==
  /\ \A i \in 1..Len(cv.coe) :
       cv.coe[i] = Circular7000 =>
         cv.mee[i] = <<I(7000), Zero, Zero, Zero, Zero, Quarter(0)>>
  /\ \A i \in 1..Len(cv.coe) :
       cv.at = "cartesian" =>
         /\ cv.r[i] = Classical2rv(cv.coe[i]).r
         /\ cv.v[i] = Classical2rv(cv.coe[i]).v
         /\ cv.coe[i] = Circular7000 =>
              /\ cv.r[i] = <<I(7000), Zero, Zero>>
              /\ cv.v[i] = <<Zero, Sqrt(Div(cn.mu, I(7000))), Zero>>

\* the circular equatorial orbit of radius 7000 and an inclined eccentric
\* orbit with a rotated node and perigee, converted together
C8_Witness ==
  /\ cv.at = "cartesian"
  /\ Len(cv.coe) = 2
  /\ cv.coe[1] = Circular7000
  /\ cv.r[1] = <<I(7000), Zero, Zero>>
  /\ cv.v[1] = <<Zero, One, Zero>>
  /\ cv.coe[2][2] # Zero
  /\ cv.coe[2][3] = Theta
  /\ cv.coe[2][4] = Quarter(1)
  /\ cv.coe[2][5] = Theta
  /\ \A j \in 1..3 : cv.r[2][j] # Zero /\ cv.v[2][j] # Zero
  /\ cv.r[2] = Classical2rv(cv.coe[2]).r

---------------------------------------------------------------------------
(* The J2 factor of the costate equations *)

\* C11: inside eom_mee_twobodyJ2_minfuel the intermediate t124, which feeds
\* the h-, k- and L-costate derivatives, equals the square of
\* (h sin L - k cos L) that the f and g state derivatives use (t40 and t61),
\* for all f, g, h, k, L.
C11_SameSquaredFactor ==
  \A n \in 1..Len(dx) :
    LET x == data[1]
        e == dx[n].locals
    IN  /\ e.t124 = Pow(Sub(Mul(x[4], Sin(x[6])), Mul(x[5], Cos(x[6]))), 2)
        /\ e.t124 = Pow(e.t40, 2)
        /\ e.t124 = Pow(e.t61, 2)

====
